---- MODULE Spec2Model ----
(***************************************************************************)
(* A model of OPK (Open Programmatic Keycap): opk.py builds one keycap     *)
(* from numeric parameters through calls into the CadQuery kernel, and     *)
(* generate_exports.py builds every key of a row table and places it in    *)
(* an assembly.                                                            *)
(*                                                                         *)
(* Units of measure.  Lengths are integers in nanometres (1e-6 mm), so     *)
(* that 19.05 mm = 19050000.  Key sizes (unit_x, unit_y) are integers in   *)
(* hundredths of a keyboard unit, so that 2.75u = 275.  All arithmetic of  *)
(* the source is then exact integer arithmetic.  The kernel's solids are   *)
(* opaque: a solid is modelled by the record of the parameters it was      *)
(* built from, and a kernel call by an entry in the log ops.               *)
(***************************************************************************)
EXTENDS Integers, Sequences, FiniteSets, TLC

\* ------------------------------------------------------------------ bounds
\* Largest key size drawn for unit_x / unit_y, in hundredths of a unit.
MaxUnit == 325
\* Largest requested surface fillet radius, in steps of 0.1 mm.
MaxSFillet == 9
\* Cap on the number of fillet attempts the model follows (the code has none).
MaxAttempts == 12
\* Largest row table export_keys is run on.
MaxRows == 2
MaxKeys == 3

\* ------------------------------------------------------- program constants
Pitch == 19050000
BaseDimRef == 18200000
TopDimRef == 12500000
GlobalDepth == 2500000
Thickness == 1500000
FilletStep == 100000
ExportDepth == 2800000
StabMin == 175
StabWide == 275
StabSpan == 225
PosMin == 200

\* Key sizes on a 0.05u grid.
Units == {u \in 1..MaxUnit : u % 5 = 0}

Min(a, b) == IF a <= b THEN a ELSE b

\* ------------------------------------------------------ dimension calculator
\* dim(unit) = 19.05 * unit - (19.05 - base_dim)
Dim(unit, base_dim) == (Pitch \div 100) * unit - (Pitch - base_dim)

calc_base_dim(ux, uy, base_dim) == <<Dim(ux, base_dim), Dim(uy, base_dim)>>

\* a slip: the offset taken from the larger base axis
TopDiffMax(base_dims, top_dim) ==
  (IF base_dims[1] >= base_dims[2] THEN base_dims[1] ELSE base_dims[2]) - top_dim

\* diff = min(base_dims) - top_dim
TopDiff(base_dims, top_dim) == Min(base_dims[1], base_dims[2]) - top_dim

calc_top_dim(base_dims, top_dim) ==
  <<base_dims[1] - TopDiff(base_dims, top_dim),
    base_dims[2] - TopDiff(base_dims, top_dim)>>

\* ------------------------------------------------------------- stem layout
\* a slip: the requested style is used as given
EffectivePosAsGiven(ux, uy, p) == p

\* if unit_x < 2 and unit_y < 2: pos = False
EffectivePos(ux, uy, p) == IF ux < PosMin /\ uy < PosMin THEN FALSE ELSE p

\* width = unit_x if unit_x >= unit_y else unit_y
Width(ux, uy) == IF ux >= uy THEN ux ELSE uy

\* dist = w / 2 * 19.05 - 19.05 / 2
StemDist(w) == (Pitch \div 200) * w - Pitch \div 2

\* a slip: the thresholds taken inclusively
StandardPtsInclusive(ux, uy) ==
  LET width == Width(ux, uy) IN
  IF width >= StabWide
    THEN <<  <<0, 0>>, <<StemDist(width), 0>>, <<-StemDist(width), 0>>  >>
  ELSE IF width >= StabMin
    THEN <<  <<0, 0>>, <<StemDist(StabSpan), 0>>, <<-StemDist(StabSpan), 0>>  >>
  ELSE <<  <<0, 0>>  >>

\* a slip: the 2.25u branch adds only the stem on the positive side
StandardPtsOneSided(ux, uy) ==
  LET width == Width(ux, uy) IN
  IF width > StabWide
    THEN <<  <<0, 0>>, <<StemDist(width), 0>>, <<-StemDist(width), 0>>  >>
  ELSE IF width > StabMin
    THEN <<  <<0, 0>>, <<StemDist(StabSpan), 0>>  >>
  ELSE <<  <<0, 0>>  >>

\* the list built by the "standard stems" branch, before the flip
StandardPts(ux, uy) ==
  LET width == Width(ux, uy) IN
  IF width > StabWide
    THEN <<  <<0, 0>>, <<StemDist(width), 0>>, <<-StemDist(width), 0>>  >>
  ELSE IF width > StabMin
    THEN <<  <<0, 0>>, <<StemDist(StabSpan), 0>>, <<-StemDist(StabSpan), 0>>  >>
  ELSE <<  <<0, 0>>  >>

\* if unit_y > unit_x: stem_pts = [(y, x) for x, y in stem_pts]
FlipPts(ux, uy, pts) ==
  IF uy > ux THEN [i \in 1..Len(pts) |-> <<pts[i][2], pts[i][1]>>] ELSE pts

\* Python's round(v, 6) of a length given in 1e-7 mm: the nearest multiple of
\* 1e-6 mm (a nanometre), ties to the even one.
Round6(v7) ==
  LET q == v7 \div 10
      r == v7 % 10
  IN  IF r < 5 THEN q
      ELSE IF r > 5 THEN q + 1
      ELSE IF q % 2 = 0 THEN q ELSE q + 1

\* stem_start = round(-19.05 * (stem_num / 2) + 19.05 / 2, 6)
StemStart(n) == Round6((0 - (Pitch * 10) * n) \div 2 + (Pitch * 10) \div 2)

\* the list built by the two nested loops of the POS branch: i over y, l over x
PosPts(ux, uy) ==
  LET nx == ux \div 100
      ny == uy \div 100
  IN  [k \in 1..(nx * ny) |->
         <<StemStart(nx) + ((k - 1) % nx) * Pitch,
           StemStart(ny) + ((k - 1) \div nx) * Pitch>>]

\* key=lambda x: sum(x)
SortKey(pt) == pt[1] + pt[2]

\* list.sort is stable: a point goes after every point whose key is <= its own
RECURSIVE InsertPt(_, _)
InsertPt(sorted, pt) ==
  IF sorted = <<>> THEN <<pt>>
  ELSE IF SortKey(sorted[Len(sorted)]) <= SortKey(pt) THEN Append(sorted, pt)
  ELSE Append(InsertPt(SubSeq(sorted, 1, Len(sorted) - 1), pt), sorted[Len(sorted)])

RECURSIVE SortPts(_)
SortPts(pts) ==
  IF pts = <<>> THEN <<>>
  ELSE InsertPt(SortPts(SubSeq(pts, 1, Len(pts) - 1)), pts[Len(pts)])

calc_stem_points(ux, uy, p) ==
  IF ~EffectivePos(ux, uy, p)
    THEN SortPts(FlipPts(ux, uy, StandardPts(ux, uy)))
    ELSE SortPts(PosPts(ux, uy))

\* a slip: every stem of an alps key gets the alps profile
StemProfileAll(pt, type) == type

\* if pt == (0, 0) and type == "alps": alps stem, else cherry stem
StemProfile(pt, type) == IF pt = <<0, 0>> /\ type = "alps" THEN "alps" ELSE "cherry"

\* if type not in ["cherry", "alps"]
ValidStemType(type) == type \in {"cherry", "alps"}


\* --------------------------------------------------------------- make_scoop
\* make_scoop has no depth parameter: the name depth in its body is the module
\* global (2.5 mm), whatever depth make_keycap was called with.
ScoopDepth(depth_arg) == GlobalDepth

\* the arc midpoints of the non-convex loft: (0, -depth) for the middle section,
\* (0, min(-0.1, -depth + 1.5)) for the two outer ones
make_scoop(depth_arg, cvx) ==
  IF cvx
    THEN [kind |-> "convex", deep |-> 2000000, shallow |-> 2000000]
    ELSE [kind |-> "concave",
          deep |-> 0 - ScoopDepth(depth_arg),
          shallow |-> Min(0 - 100000, 0 - ScoopDepth(depth_arg) + 1500000)]

\* height - depth - thickness
InnerHeight(h, depth_arg) == h - depth_arg - Thickness

\* a slip: the radius raised instead of reduced
ReduceFilletUp(r) == r + FilletStep

\* surface_fillet -= 0.1
ReduceFillet(r) == r - FilletStep

\* ------------------------------------------------------------------- state
VARIABLES
  pc,              \* position in make_keycap / make_stems
  unit_x, unit_y, pos, stem_type, s_fillet, depth, convex, height,  \* arguments
  base_dims, top_dims, scoop, inner_height,
  ops,             \* kernel operations invoked so far, in order
  surface_fillet, filleted,
  tried,           \* the kernel's fillet calls in order: radius and outcome
  stem_pts, stems, err,
  epc,             \* position in export_keys
  key_rows, row_i, key_i, x, y,
  assy             \* the assembly: one entry per assy.add

args == <<unit_x, unit_y, pos, stem_type, s_fillet, depth, convex, height>>
geom == <<base_dims, top_dims, scoop, inner_height>>
loop == <<surface_fillet, filleted, tried>>
stemv == <<stem_pts, stems, err>>
expv == <<epc, key_rows, row_i, key_i, x, y, assy>>
vars == <<pc, args, geom, ops, loop, stemv, expv>>

StemTypes == {"cherry", "alps", "topre"}
Depths == {GlobalDepth, ExportDepth, 3600000}

\* what the variables of a call hold before the call has set them
GeomIdle ==
  /\ base_dims = <<0, 0>>
  /\ top_dims = <<0, 0>>
  /\ scoop = [kind |-> "none", deep |-> 0, shallow |-> 0]
  /\ inner_height = 0
  /\ ops = <<>>
  /\ surface_fillet = 0
  /\ filleted = FALSE
  /\ tried = <<>>
  /\ stem_pts = <<>>
  /\ stems = <<>>
  /\ err = "none"

ExportIdle ==
  /\ epc = "idle"
  /\ key_rows = <<>>
  /\ row_i = 0
  /\ key_i = 0
  /\ x = 0
  /\ y = 0
  /\ assy = <<>>

\* -------------------------------------------------------------- make_keycap
\* base_dims = calc_base_dim(unit_x, unit_y, base_dim)
CalcBaseDim ==
  /\ pc = "base_dim"
  /\ base_dims' = calc_base_dim(unit_x, unit_y, BaseDimRef)
  /\ pc' = "top_dim"
  /\ UNCHANGED <<args, top_dims, scoop, inner_height, ops, loop, stemv, expv>>

\* top_dims = calc_top_dim(base_dims, top_dim)
CalcTopDim ==
  /\ pc = "top_dim"
  /\ top_dims' = calc_top_dim(base_dims, TopDimRef)
  /\ pc' = "scoop"
  /\ UNCHANGED <<args, base_dims, scoop, inner_height, ops, loop, stemv, expv>>

\* scoop = make_scoop(*base_dims, height, angle, convex)
MakeScoop ==
  /\ pc = "scoop"
  /\ scoop' = make_scoop(depth, convex)
  /\ ops' = Append(ops, "make_scoop")
  /\ pc' = "inner_shell"
  /\ UNCHANGED <<args, base_dims, top_dims, inner_height, loop, stemv, expv>>

\* inner_shell = make_keycap_shell(..., height - depth - thickness, angle)
MakeInnerShell ==
  /\ pc = "inner_shell"
  /\ inner_height' = InnerHeight(height, depth)
  /\ ops' = Append(ops, "loft")
  /\ pc' = "outer_shell"
  /\ UNCHANGED <<args, base_dims, top_dims, scoop, loop, stemv, expv>>

\* outer_shell = make_keycap_shell(...).cut(scoop).faces(">Z").edges()
\* filleted = False; surface_fillet = s_fillet
MakeOuterShell ==
  /\ pc = "outer_shell"
  /\ ops' = ops \o <<"loft", "cut">>
  /\ filleted' = FALSE
  /\ surface_fillet' = s_fillet
  /\ pc' = "fillet"
  /\ UNCHANGED <<args, geom, tried, stemv, expv>>

\* One pass of "while not filleted" in which the kernel's fillet succeeds.
FilletOk ==
  /\ pc = "fillet"
  /\ ~filleted
  /\ Len(tried) < MaxAttempts
  /\ tried' = Append(tried, [radius |-> surface_fillet, ok |-> TRUE])
  /\ filleted' = TRUE
  /\ pc' = "make_stems"
  /\ UNCHANGED <<args, geom, ops, surface_fillet, stemv, expv>>

\* a variant with a lower bound: a failure at a radius that cannot be reduced
\* further without going negative is raised to the caller
FilletFailBounded ==
  /\ pc = "fillet"
  /\ ~filleted
  /\ Len(tried) < MaxAttempts
  /\ tried' = Append(tried, [radius |-> surface_fillet, ok |-> FALSE])
  /\ IF surface_fillet - FilletStep < 0
       THEN /\ err' = "ValueError"
            /\ pc' = "raised"
            /\ UNCHANGED surface_fillet
       ELSE /\ surface_fillet' = surface_fillet - FilletStep
            /\ UNCHANGED <<pc, err>>
  /\ UNCHANGED <<args, geom, ops, filleted, stem_pts, stems, expv>>

\* One pass in which the kernel's fillet raises: the bare except clause catches
\* whatever was raised and reduces the radius.
FilletFail ==
  /\ pc = "fillet"
  /\ ~filleted
  /\ Len(tried) < MaxAttempts
  /\ tried' = Append(tried, [radius |-> surface_fillet, ok |-> FALSE])
  /\ surface_fillet' = ReduceFillet(surface_fillet)
  /\ UNCHANGED <<pc, args, geom, ops, filleted, stemv, expv>>

\* --------------------------------------------------------------- make_stems
\* stem_pts = calc_stem_points(unit_x, unit_y, pos)
CalcStemPoints ==
  /\ pc = "make_stems"
  /\ stem_pts' = calc_stem_points(unit_x, unit_y, pos)
  /\ pc' = "check_type"
  /\ UNCHANGED <<args, geom, ops, loop, stems, err, expv>>

\* if type not in ["cherry", "alps"]: raise TypeError(...)
RaiseTypeError ==
  /\ pc = "check_type"
  /\ ~ValidStemType(stem_type)
  /\ err' = "TypeError"
  /\ pc' = "raised"
  /\ UNCHANGED <<args, geom, ops, loop, stem_pts, stems, expv>>

\* a slip: the stem loop entered without the type check
BeginStemsUnchecked ==
  /\ pc = "check_type"
  /\ stems' = <<>>
  /\ pc' = "stem_loop"
  /\ UNCHANGED <<args, geom, ops, loop, stem_pts, err, expv>>

\* stems = cq.Workplane()
BeginStems ==
  /\ pc = "check_type"
  /\ ValidStemType(stem_type)
  /\ stems' = <<>>
  /\ pc' = "stem_loop"
  /\ UNCHANGED <<args, geom, ops, loop, stem_pts, err, expv>>

\* one pass of "for pt in stem_pts": build the stem, translate it, union it
AddStem ==
  /\ pc = "stem_loop"
  /\ Len(stems) < Len(stem_pts)
  /\ LET pt == stem_pts[Len(stems) + 1]
         profile == StemProfile(pt, stem_type)
     IN  /\ stems' = Append(stems, [pt |-> pt, profile |-> profile])
         /\ ops' = Append(ops, IF profile = "alps" THEN "make_alps_stem"
                                                   ELSE "make_cherry_stem")
  /\ UNCHANGED <<pc, args, geom, loop, stem_pts, err, expv>>

\* return stems
ReturnStems ==
  /\ pc = "stem_loop"
  /\ Len(stems) = Len(stem_pts)
  /\ pc' = "stems_done"
  /\ UNCHANGED <<args, geom, ops, loop, stemv, expv>>

\* stems = make_stems(...).intersect(outer_shell)
\* keycap = outer_shell - inner_shell + stems; return keycap
Combine ==
  /\ pc = "stems_done"
  /\ ops' = ops \o <<"intersect", "cut", "union">>
  /\ pc' = "done"
  /\ UNCHANGED <<args, geom, loop, stemv, expv>>


\* -------------------------------------------------------------- export_keys
\* the rows table: angle and height of row i
RowAngles == <<13, 9, 8, -6, -8, 0>>
RowHeights == <<14000000, 12000000, 9750000, 8750000, 10500000, 10500000>>

\* The key dicts of the table.  A dict without "convex" has has_convex FALSE,
\* one without "depth" has has_depth FALSE.
Key(u, hc, c, hd, d) ==
  [unit_x |-> u, has_convex |-> hc, convex |-> c, has_depth |-> hd, depth |-> d]

KeyKinds ==
  { Key(100, FALSE, FALSE, FALSE, 0),
    Key(125, FALSE, FALSE, FALSE, 0),
    Key(150, FALSE, FALSE, FALSE, 0),
    Key(200, TRUE, TRUE, FALSE, 0),
    Key(100, FALSE, FALSE, TRUE, 3600000) }

\* convex = False; if "convex" in k: convex = k["convex"]
KeyConvex(k) == IF k.has_convex THEN k.convex ELSE FALSE

\* depth = 2.8; if "depth" in k: depth = k["depth"]
KeyDepth(k) == IF k.has_depth THEN k.depth ELSE ExportDepth

\* name = "row{}_U{}" (+ "_convex") (+ "_homing")
KeyName(i, k) ==
  [row |-> i, unit_x |-> k.unit_x, convex |-> k.has_convex,
   homing |-> k.has_depth /\ k.depth > ExportDepth]

\* cap = make_keycap(angle=, height=, unit_x=, convex=, depth=, stem_type="alps")
KeyCap(r, k) ==
  [unit_x |-> k.unit_x, angle |-> r.angle, height |-> r.height,
   convex |-> KeyConvex(k), depth |-> KeyDepth(k), stem_type |-> "alps"]

\* w = 19.05 * k["unit_x"] / 2
HalfWidth(u) == (Pitch \div 200) * u

\* x += w, before assy.add
BeforePlace(x0, w) == x0 + w

\* a slip: the second x += w left out
AfterPlaceNone(x1, w) == x1

\* x += w, after assy.add
AfterPlace(x1, w) == x1 + w

\* y -= 19.05
NextRowY(y0) == y0 - Pitch

\* for i, r in enumerate(key_rows): x = 0
BeginRow ==
  /\ epc = "rows"
  /\ row_i < Len(key_rows)
  /\ x' = 0
  /\ key_i' = 0
  /\ epc' = "keys"
  /\ UNCHANGED <<pc, args, geom, ops, loop, stemv, key_rows, row_i, y, assy>>

\* one pass of "for k in r['keys']".  make_keycap is taken to return: the cap is
\* the record of the arguments it was called with.
ExportKey ==
  /\ epc = "keys"
  /\ key_i < Len(key_rows[row_i + 1].keys)
  /\ LET r == key_rows[row_i + 1]
         k == r.keys[key_i + 1]
         w == HalfWidth(k.unit_x)
         x1 == BeforePlace(x, w)
     IN  /\ assy' = Append(assy, [name |-> KeyName(row_i, k), cap |-> KeyCap(r, k),
                                  x |-> x1, y |-> y])
         /\ x' = AfterPlace(x1, w)
  /\ key_i' = key_i + 1
  /\ UNCHANGED <<pc, args, geom, ops, loop, stemv, epc, key_rows, row_i, y>>

\* the row's keys are exhausted: y -= 19.05, next row
EndRow ==
  /\ epc = "keys"
  /\ key_i = Len(key_rows[row_i + 1].keys)
  /\ y' = NextRowY(y)
  /\ row_i' = row_i + 1
  /\ epc' = "rows"
  /\ UNCHANGED <<pc, args, geom, ops, loop, stemv, key_rows, key_i, x, assy>>

\* the rows are exhausted: return assy
Finish ==
  /\ epc = "rows"
  /\ row_i = Len(key_rows)
  /\ epc' = "done"
  /\ UNCHANGED <<pc, args, geom, ops, loop, stemv, key_rows, row_i, key_i, x, y, assy>>

\* ----------------------------------------------------------- specifications
\* the module's defaults for the arguments a call leaves out
DefaultArgs ==
  /\ s_fillet = 900000
  /\ depth = GlobalDepth
  /\ convex = TRUE
  /\ height = 9000000

\* make_keycap called with drawn arguments
Init ==
  /\ pc = "base_dim"
  /\ unit_x \in {100, 200, 300}
  /\ unit_y = 100
  /\ pos \in BOOLEAN
  /\ stem_type \in StemTypes
  /\ s_fillet \in {k * FilletStep : k \in 0..MaxSFillet}
  /\ depth \in Depths
  /\ convex \in BOOLEAN
  /\ height = 8750000
  /\ GeomIdle
  /\ ExportIdle

NextStems ==
  \/ CalcStemPoints
  \/ RaiseTypeError
  \/ BeginStems
  \/ AddStem
  \/ ReturnStems

Next ==
  \/ CalcBaseDim
  \/ CalcTopDim
  \/ MakeScoop
  \/ MakeInnerShell
  \/ MakeOuterShell
  \/ FilletOk
  \/ FilletFail
  \/ NextStems
  \/ Combine

Spec == Init /\ [][Next]_vars

\* make_stems called on its own with drawn arguments
InitStems ==
  /\ pc = "make_stems"
  /\ unit_x \in Units
  /\ unit_y \in Units
  /\ pos \in BOOLEAN
  /\ stem_type \in StemTypes
  /\ DefaultArgs
  /\ GeomIdle
  /\ ExportIdle

SpecStems == InitStems /\ [][NextStems]_vars

\* the dimension calculator on a key of drawn width, unit_y = 1
InitDims ==
  /\ pc = "base_dim"
  /\ unit_x \in Units
  /\ unit_y = 100
  /\ pos = FALSE
  /\ stem_type = "cherry"
  /\ DefaultArgs
  /\ GeomIdle
  /\ ExportIdle

NextDims ==
  \/ CalcBaseDim
  \/ CalcTopDim

SpecDims == InitDims /\ [][NextDims]_vars

\* The row tables drawn for export_keys: n keys in table order, cut into r rows
\* by a nondecreasing row number per key.
RowKeys(flat, rowOf, i) ==
  LET idx == {j \in DOMAIN flat : rowOf[j] = i}
      lo == IF idx = {} THEN 0 ELSE CHOOSE j \in idx : \A m \in idx : j <= m
  IN  [m \in 1..Cardinality(idx) |-> flat[lo + m - 1]]

Table(r, flat, rowOf) ==
  [i \in 1..r |-> [angle |-> RowAngles[i], height |-> RowHeights[i],
                   keys |-> RowKeys(flat, rowOf, i)]]

InitExport ==
  /\ pc = "idle"
  /\ unit_x = 100
  /\ unit_y = 100
  /\ pos = FALSE
  /\ stem_type = "alps"
  /\ DefaultArgs
  /\ GeomIdle
  /\ epc = "rows"
  /\ \E r \in 0..MaxRows, n \in 0..MaxKeys :
       \E flat \in [1..n -> KeyKinds], rowOf \in [1..n -> 1..r] :
         /\ \A j \in 1..n : \A m \in 1..n : j <= m => rowOf[j] <= rowOf[m]
         /\ key_rows = Table(r, flat, rowOf)
  /\ row_i = 0
  /\ key_i = 0
  /\ x = 0
  /\ y = 0
  /\ assy = <<>>

NextExport ==
  \/ BeginRow
  \/ ExportKey
  \/ EndRow
  \/ Finish

SpecExport == InitExport /\ [][NextExport]_vars


\* =================================================================== claims
StemsComputed == pc \in {"check_type", "raised", "stem_loop", "stems_done", "done"}

\* the standard layout is in force: requested, or forced on a key under 2u x 2u
StandardLayout == ~pos \/ (unit_x < 200 /\ unit_y < 200)

AllFailed == tried # <<>> /\ \A i \in 1..Len(tried) : ~tried[i].ok

\* C1: the i-th fillet attempt is made at s_fillet - 0.1*(i-1), never above
\* s_fillet; only the last attempt can have succeeded; and once an attempt
\* succeeds after N failures the loop is left with N+1 attempts made and the
\* effective radius s_fillet - 0.1*N.
C1_FilletRetry ==
  /\ \A i \in 1..Len(tried) :
       /\ tried[i].radius = s_fillet - 100000 * (i - 1)
       /\ tried[i].radius <= s_fillet
       /\ (i < Len(tried) => ~tried[i].ok)
  /\ filleted <=> (tried # <<>> /\ tried[Len(tried)].ok)
  /\ filleted =>
       /\ pc # "fillet"
       /\ surface_fillet = s_fillet - 100000 * (Len(tried) - 1)
       /\ surface_fillet = tried[Len(tried)].radius

\* two failures, then success at s_fillet - 0.2
C1_Witness ==
  /\ filleted
  /\ Len(tried) = 3
  /\ s_fillet = 400000
  /\ surface_fillet = 200000

\* C2: while every fillet attempt so far has failed, make_keycap is still in
\* the loop (it has neither returned nor raised, and no stem work has begun),
\* the radius is s_fillet minus 0.1 per failure with no lower bound, and another
\* failing pass is possible.
C2_UnboundedRetry ==
  AllFailed =>
    /\ pc = "fillet"
    /\ err = "none"
    /\ ~filleted
    /\ stem_pts = <<>> /\ stems = <<>>
    /\ surface_fillet = s_fillet - 100000 * Len(tried)
    /\ (Len(tried) < MaxAttempts => ENABLED FilletFail)

\* every attempt failed and the radius has gone below zero
C2_Witness ==
  /\ AllFailed
  /\ pc = "fillet"
  /\ surface_fillet < 0
  /\ tried[Len(tried)].radius <= 0

\* C3 as stated: the TypeError is raised before any kernel operation.
C3_Original ==
  err = "TypeError" => (ops = <<>> /\ tried = <<>>)

\* C3 amended: the TypeError of an unrecognized stem type is raised after the
\* scoop, both lofts, the cut and a successful fillet, and before any stem solid
\* is built; no stem is ever built for an unrecognized type.
C3_TypeErrorBeforeStems ==
  /\ err = "TypeError" =>
       /\ pc = "raised"
       /\ stem_type \notin {"cherry", "alps"}
       /\ ops = <<"make_scoop", "loft", "loft", "cut">>
       /\ filleted /\ tried # <<>>
  /\ stem_type \notin {"cherry", "alps"} =>
       /\ stems = <<>>
       /\ \A i \in 1..Len(ops) : ops[i] \notin {"make_cherry_stem", "make_alps_stem"}
       /\ pc \notin {"stem_loop", "stems_done", "done"}

\* the TypeError raised after two fillet attempts
C3_Witness ==
  /\ err = "TypeError"
  /\ Len(tried) = 2
  /\ Len(ops) = 4

\* the point at distance v from the centre on the key's longer axis
C4_Outer(v) == IF unit_x >= unit_y THEN <<v, 0>> ELSE <<0, v>>

C5_Original ==
  (StemsComputed /\ unit_x < 200 /\ unit_y < 200) => stem_pts = << <<0, 0>> >>

\* C5 amended: under 2u x 2u the requested style makes no difference (POS is
\* forced off); the result is exactly [(0, 0)] when max(unit_x, unit_y) <= 1.75
\* and the centre plus two 2.25u stabilizer stems when it is above 1.75.
C5_PosForcedOff ==
  (StemsComputed /\ unit_x < 200 /\ unit_y < 200) =>
    LET w == IF unit_x >= unit_y THEN unit_x ELSE unit_y
    IN  /\ w <= 175 => stem_pts = << <<0, 0>> >>
        /\ w > 175 =>
             stem_pts = << C4_Outer(0 - 11906250), <<0, 0>>, C4_Outer(11906250) >>

\* POS requested on a key of 1.5u x 0.5u, whose POS grid would be empty
C5_Witness ==
  /\ StemsComputed
  /\ pos
  /\ unit_x = 150 /\ unit_y = 50
  /\ stem_pts = << <<0, 0>> >>

\* C6: each stem built is at its stem point, in order; it has the alps profile
\* exactly when the type is alps and the point is (0, 0), the cherry profile
\* otherwise.  The 3u alps key gets cherry, alps, cherry; the 1u alps key gets
\* one alps stem.
C6_StemProfiles ==
  /\ pc \in {"stem_loop", "stems_done"} =>
       /\ Len(stems) <= Len(stem_pts)
       /\ \A i \in 1..Len(stems) :
            /\ stems[i].pt = stem_pts[i]
            /\ stems[i].profile =
                 IF stem_type = "alps" /\ stems[i].pt = <<0, 0>> THEN "alps" ELSE "cherry"
  /\ pc = "stems_done" =>
       /\ Len(stems) = Len(stem_pts)
       /\ (stem_type = "alps" /\ unit_x = 300 /\ unit_y = 100 /\ ~pos) =>
            stems = << [pt |-> <<0 - 19050000, 0>>, profile |-> "cherry"],
                       [pt |-> <<0, 0>>, profile |-> "alps"],
                       [pt |-> <<19050000, 0>>, profile |-> "cherry"] >>
       /\ (stem_type = "alps" /\ unit_x = 100 /\ unit_y = 100) =>
            stems = << [pt |-> <<0, 0>>, profile |-> "alps"] >>

\* the 3u alps key, all three stems built
C6_Witness ==
  /\ pc = "stems_done"
  /\ stem_type = "alps" /\ unit_x = 300 /\ unit_y = 100 /\ ~pos
  /\ Len(stems) = 3
  /\ stems[2].profile = "alps"

\* sum of unit_x over the first m keys of a row
RECURSIVE C7_SumUnits(_, _)
C7_SumUnits(keys, m) ==
  IF m = 0 THEN 0 ELSE C7_SumUnits(keys, m - 1) + keys[m].unit_x

\* where the table says each key goes: rows 1..i, in table order
RECURSIVE C7_Expected(_)
C7_Expected(i) ==
  IF i = 0 THEN <<>>
  ELSE C7_Expected(i - 1) \o
       [m \in 1..Len(key_rows[i].keys) |->
          [unit_x |-> key_rows[i].keys[m].unit_x,
           x |-> 190500 * C7_SumUnits(key_rows[i].keys, m - 1)
                 + 95250 * key_rows[i].keys[m].unit_x,
           y |-> 0 - 19050000 * (i - 1)]]

\* C7: the assembly holds the table's keys in table order, each once, the key's
\* centre at x = 19.05 * (sum of unit_x of the earlier keys of its row +
\* unit_x / 2) and y = -19.05 * (row index); neighbours in a row are the sum of
\* their half-widths apart; y is decremented once per row, empty or not.
C7_Placement ==
  LET exp == C7_Expected(Len(key_rows)) IN
  /\ epc # "idle" =>
       /\ Len(assy) <= Len(exp)
       /\ \A j \in 1..Len(assy) :
            /\ assy[j].cap.unit_x = exp[j].unit_x
            /\ assy[j].x = exp[j].x
            /\ assy[j].y = exp[j].y
       /\ \A j \in 1..(Len(assy) - 1) :
            assy[j].y = assy[j + 1].y =>
              assy[j + 1].x - assy[j].x
                = 95250 * assy[j].cap.unit_x + 95250 * assy[j + 1].cap.unit_x
  /\ epc = "rows" => y = 0 - 19050000 * row_i
  /\ epc = "done" =>
       /\ Len(assy) = Len(exp)
       /\ y = 0 - 19050000 * Len(key_rows)

\* an empty row, then the row [1, 1.25, 1.5]
C7_Witness ==
  /\ epc = "done"
  /\ Len(key_rows) = 2
  /\ Len(assy) = 3
  /\ assy[1].x = 9525000 /\ assy[1].cap.unit_x = 100
  /\ assy[2].x = 30956250 /\ assy[2].cap.unit_x = 125
  /\ assy[3].x = 57150000 /\ assy[3].cap.unit_x = 150
  /\ assy[3].y = 0 - 19050000

\* the offset (smaller base axis - top_dim) of a key of width v, unit_y = 1
C8_Offset(v) ==
  (IF 190500 * v - 850000 <= 18200000 THEN 190500 * v - 850000 ELSE 18200000)
    - 12500000

\* the base footprint grows strictly with the width
C8_Monotone ==
  pc \in {"top_dim", "scoop"} =>
    /\ base_dims = <<190500 * unit_x - 850000, 18200000>>
    /\ \A v \in Units :
         v < unit_x => calc_base_dim(v, 100, BaseDimRef)[1] < base_dims[1]

C9_Symmetric ==
  (StemsComputed /\ StandardLayout) =>
    LET pts == {stem_pts[i] : i \in 1..Len(stem_pts)} IN
    /\ \A p \in pts : <<0 - p[1], 0 - p[2]>> \in pts
    /\ <<0, 0>> \in pts
    /\ Len(stem_pts) \in {1, 3}
    /\ Cardinality(pts) = Len(stem_pts)

\* a vertical 2u key: the three stems on the Y axis
C9_Witness ==
  /\ StemsComputed
  /\ unit_x = 100 /\ unit_y = 200 /\ ~pos
  /\ stem_pts = << <<0, 0 - 11906250>>, <<0, 0>>, <<0, 11906250>> >>

\* C10 as stated: the non-convex scoop arcs are drawn at the depth make_keycap
\* was called with, the depth the inner shell is shortened by.
C10_SingleDepth ==
  /\ scoop.kind = "concave" =>
       /\ scoop.deep = 0 - depth
       /\ scoop.shallow =
            (IF 0 - 100000 <= 1500000 - depth THEN 0 - 100000 ELSE 1500000 - depth)
  /\ pc \in {"outer_shell", "fillet"} => inner_height = height - depth - 1500000

====
